---- MODULE Spec2Model ----
(***************************************************************************)
(* Model of MaestroUpdater (scripts/auto_update.py): the update flow       *)
(* update() = check_for_updates -> _handle_local_changes -> deletion       *)
(* confirmation -> _create_backup -> _perform_update -> {_sync_to_user_    *)
(* claude_dir, _create_update_notification | _rollback}.                   *)
(*                                                                         *)
(* The version-control process, the filesystem and the operator are the    *)
(* environment: every command of theirs the code tests the outcome of can  *)
(* succeed or fail, and every prompt read can return or raise.             *)
(***************************************************************************)
EXTENDS Integers, Sequences, FiniteSets, TLC

\* ------------------------------------------------------------------ bounds
\* Commits are 0..MaxCommit on origin/main: a linear history.
MaxCommit == 2
\* Failures of the environment in one behaviour: a version-control command
\* that exits non-zero, a filesystem call or a prompt read that raises.
MaxFaults == 2
\* Consecutive runs of the `sync` command in one behaviour.
MaxSyncs == 2
\* The commit of origin/main that adds the large set of skill files.
BulkCommit == MaxCommit + 3

\* ------------------------------------------------------------------- paths
\* A relative path is a sequence of tokens; str.startswith is prefix-of.
StartsWith(f, p) == Len(p) <= Len(f) /\ SubSeq(f, 1, Len(p)) = p

MAESTRO_PATHS == << <<"agents", "/">>, <<"commands", "/">>,
                    <<"scripts", "/">>, <<"skills", "/">> >>

MAESTRO_FILES == << <<"CHANGELOG.md">>, <<"CLAUDE.md">>, <<"Makefile">> >>

Range(s) == {s[i] : i \in 1..Len(s)}

\* A faulty variant: the managed filenames are left out of the allow-list.
IsUnderMaestroPath(f) == \E p \in Range(MAESTRO_PATHS) : StartsWith(f, p)

IsMaestroFile(f) ==
    \/ \E p \in Range(MAESTRO_PATHS) : StartsWith(f, p)
    \/ \E mf \in Range(MAESTRO_FILES) : f = mf \/ StartsWith(f, mf)

\* A faulty variant: the lists are not filtered.
FilterNothing(files) == files

_filter_maestro_files(files) == SelectSeq(files, IsMaestroFile)

\* path.rstrip('/') of a managed prefix, as `git clean -fd <dir>` takes it;
\* a file is under the directory when its path starts with "<dir>/".
UnderDir(f, prefix) == StartsWith(f, prefix)

RunPy     == <<"scripts", "/", "run.py">>
SetupPy   == <<"scripts", "/", "setup.py">>
TmpPy     == <<"scripts", "/", "tmp.py">>
OldAgent  == <<"agents", "/", "old.md">>
NewAgent  == <<"agents", "/", "new.md">>
Guide     == <<"docs", "/", "guide.md">>
ClaudeMd  == <<"CLAUDE.md">>
MakeInc   == <<"Makefile", ".inc">>
Todo      == <<"notes", "/", "todo.txt">>
Draft     == <<"notes", "/", "draft.txt">>
Settings  == <<"settings.json">>
\* A file of the operator's own in USER_CLAUDE_DIR, never in the repository.
MyAgent   == <<"agents", "/", "mine.md">>

\* dst.parent: the directory part of a path, << >> for USER_CLAUDE_DIR itself.
Parent(f) == SubSeq(f, 1, Len(f) - 1)

\* A large commit: more skill files than the notification lists.
BulkNames == <<
    "s01.md", "s02.md", "s03.md", "s04.md", "s05.md", "s06.md",
    "s07.md", "s08.md", "s09.md", "s10.md", "s11.md", "s12.md",
    "s13.md", "s14.md", "s15.md", "s16.md", "s17.md", "s18.md",
    "s19.md", "s20.md", "s21.md" >>
BulkOrder == [i \in 1..Len(BulkNames) |-> <<"skills", "/", BulkNames[i]>>]
Bulk == Range(BulkOrder)

\* Name order of `git diff --name-only` output.
PathOrder == <<ClaudeMd, MakeInc, NewAgent, OldAgent, Guide, RunPy, SetupPy>>
                 \o BulkOrder

\* --------------------------------------------------------- upstream history
\* What commit k of origin/main did to the tree of commit k-1.
Modified(k) == IF k % 3 = 1 THEN {RunPy, Guide}
               ELSE IF k % 3 = 0 THEN {ClaudeMd} ELSE {MakeInc}
Added(k)    == IF k = 3 THEN {NewAgent}
               ELSE IF k = BulkCommit THEN Bulk ELSE {}
Removed(k)  == IF k = 2 THEN {OldAgent} ELSE IF k = 3 THEN {SetupPy} ELSE {}

Tree0 == {RunPy, SetupPy, OldAgent, Guide, ClaudeMd, MakeInc}

RECURSIVE Tree(_)
Tree(c) == IF c = 0 THEN Tree0 ELSE (Tree(c - 1) \ Removed(c)) \cup Added(c)

\* git diff --name-only a b, and with --diff-filter=D, for a <= b.
DiffNames(a, b) ==
    UNION {Modified(k) \cup Added(k) \cup Removed(k) : k \in (a + 1)..b}
DiffDeleted(a, b) == UNION {Removed(k) : k \in (a + 1)..b}

AsList(S) == SelectSeq(PathOrder, LAMBDA p : p \in S)

\* Content version of file f at commit c: the upstream changes it has seen.
Version(f, c) == Cardinality({k \in 1..c : f \in Modified(k) \cup Added(k)})

\* Content version of scripts/run.py at commit c.
ScriptsVersion(c) == Cardinality({k \in 1..c : RunPy \in Modified(k)})

\* ------------------------------------------------------ working-tree changes
\* One line of `git status --porcelain`: a status code and a path.
ModRun  == [status |-> "M",  path |-> RunPy]
ModTmp  == [status |-> "??", path |-> TmpPy]
ModTodo == [status |-> "??", path |-> Todo]
\* A new file staged with `git add`, not in any commit.
ModDraft == [status |-> "A", path |-> Draft]

ModOrder == <<ModDraft, ModRun, ModTodo, ModTmp>>

IsUntracked(m) == m.status = "??"
Untracked(wt) == {m \in wt : IsUntracked(m)}
Tracked(wt)   == {m \in wt : ~IsUntracked(m)}

\* The files in the working directory: those of the checked-out commit c and
\* the new ones, untracked or staged.
FilesOnDisk(wt, c) ==
    Tree(c) \cup {m.path : m \in {x \in wt : x.status \in {"??", "A"}}}

\* The sentinel _get_current_commit / _get_remote_commit return on failure.
Unknown == -1

\* ------------------------------------------------------------------- state
VARIABLES
    pc,             \* position of update(), or "Idle" between invocations
    force, silent,  \* update()'s arguments
    head,           \* local HEAD commit
    remote,         \* head of origin's default branch
    originMain,     \* the local remote-tracking ref origin/main
    workTree,       \* local modifications (lines of git status)
    stash,          \* entries on the stash list
    now,            \* the clock, in seconds
    backups,        \* backup_dir: timestamp -> snapshot directory
    metadata,       \* metadata_file
    userClaude,     \* USER_CLAUDE_DIR
    notification,   \* cwd/update_notification.txt
    info,           \* the UpdateInfo check_for_updates returned
    ret,            \* what each step of this invocation returned
    calls,          \* the commands and prompts this invocation has issued
    start,          \* the persistent state when this invocation started
    touched,        \* the files written to or removed from USER_CLAUDE_DIR
    faults          \* failures of the environment so far

vars == <<pc, force, silent, head, remote, originMain,
          workTree, stash, now, backups, metadata, userClaude, notification,
          info, ret, calls, start, touched, faults>>

NoInfo == [current_commit |-> Unknown, remote_commit |-> Unknown,
           local_changes |-> << >>, remote_changes |-> << >>,
           deleted_files |-> << >>, status |-> "none", behind_by |-> 0]

\* "none": the step has not returned in this invocation; exit is -1 while
\* the process runs; failed holds the commands of the check command that
\* did not succeed.
NoRet == [guard |-> "none", confirm |-> "none", backup |-> "none",
          perform |-> "none", rollback |-> "none", update |-> "none",
          cancel |-> "none", pull |-> "none", hook |-> "none",
          reset |-> "none", stash |-> "none", sync_all |-> "none",
          synced |-> << >>, exit |-> -1, failed |-> {}]

NoMetadata == [kind |-> "absent", timestamp |-> 0, commit |-> Unknown,
               backup_path |-> 0]
CorruptMetadata == [kind |-> "corrupt", timestamp |-> 0, commit |-> Unknown,
                    backup_path |-> 0]

NoBackups == [t \in {} |-> 0]

NoNotification == [kind |-> "absent", behind_by |-> 0, updated |-> << >>,
                   removed |-> << >>, synced |-> 0, deleted |-> 0]

Snapshot == [head |-> head, workTree |-> workTree, stash |-> stash,
             backups |-> backups, metadata |-> metadata,
             userClaude |-> userClaude, notification |-> notification]

\* The content of a file: its upstream version, and whether it differs from
\* it (a local modification, or a file that is in no commit).
Pristine(f, c) == [ver |-> Version(f, c), local |-> FALSE]
Own == [ver |-> 0, local |-> TRUE]

\* The content of file f of the repository's working directory.
SrcContent(f) ==
    IF \E m \in workTree : m.path = f
    THEN [ver |-> IF f \in Tree(head) THEN Version(f, head) ELSE 0,
          local |-> TRUE]
    ELSE Pristine(f, head)

\* The directories that hold the files.
DirsOf(files) == {Parent(f) : f \in {g \in files : Len(g) > 1}}

\* USER_CLAUDE_DIR as an installation that mirrors commit c leaves it: its
\* files, the content of each, and its subdirectories.
Installed(c) ==
    LET files == {Settings} \cup {f \in Tree(c) : IsMaestroFile(f)}
    IN  [exists |-> TRUE, files |-> files,
         content |-> [f \in files |-> Pristine(f, c)],
         dirs |-> DirsOf(files)]
NoUserClaude == [exists |-> FALSE, files |-> {}, content |-> << >>,
                 dirs |-> {}]

\* The file f with content c written into the directory uc.
PutFile(uc, f, c) ==
    [uc EXCEPT !.files = @ \cup {f},
               !.content = [g \in uc.files \cup {f} |->
                               IF g = f THEN c ELSE uc.content[g]],
               !.dirs = @ \cup DirsOf({f})]

\* The installation with an agent of the operator's own next to it.
WithOwn(uc) == PutFile(uc, MyAgent, Own)

\* The snapshot directory a completed _create_backup at commit c left.
PriorDir(c, uc) ==
    [scripts |-> TRUE, commit |-> c, mods |-> {}, settings |-> uc.exists]

PriorRecord(c) ==
    [kind |-> "record", timestamp |-> 0, commit |-> c, backup_path |-> 0]

\* What earlier invocations can have left of the backup root and the
\* metadata file in a repository now at commit h: nothing (no update ran
\* yet), or the record and snapshot of the last update that backed up, made
\* at a commit c <= h, or such a record whose snapshot the operator has since
\* removed (the tool never deletes one; the commit of a record whose snapshot
\* is gone is never read).
PriorBackups(h, uc) ==
    {[backups |-> NoBackups, metadata |-> NoMetadata]}
    \cup {[backups |-> [t \in {0} |-> PriorDir(c, uc)],
           metadata |-> PriorRecord(c)] : c \in 0..h}
    \cup {[backups |-> NoBackups, metadata |-> PriorRecord(h)]}

\* Working trees the operator can have left.
WorkTrees == {{}, {ModTmp, ModTodo}, {ModDraft, ModRun, ModTmp, ModTodo}}

\* What USER_CLAUDE_DIR can be when the repository is at commit h: not there,
\* or an installation, with an agent of the operator's own (`own`) or without.
Consumers(h, own) ==
    IF own THEN {Installed(h), WithOwn(Installed(h))}
    ELSE {Installed(h), NoUserClaude}

\* The process starts on a repository at any point of its life: the remote
\* at some commit, the local head at or behind it, origin/main as the last
\* fetch left it.
InitOf(Trees, own) ==
    /\ pc = "Idle"
    /\ force = FALSE
    /\ silent = FALSE
    /\ remote \in 0..MaxCommit
    /\ head \in 0..remote
    /\ originMain \in {head, remote}
    /\ workTree \in Trees
    /\ stash = 0
    /\ now = 1
    /\ userClaude \in Consumers(head, own)
    /\ \E prior \in PriorBackups(head, userClaude) :
          /\ backups = prior.backups
          /\ metadata = prior.metadata
    /\ notification = NoNotification
    /\ info = NoInfo
    /\ ret = NoRet
    /\ calls = << >>
    /\ start = Snapshot
    /\ touched = {}
    /\ faults = 0

Init == InitOf(WorkTrees, FALSE)

\* A repository that was never updated, one or more commits behind a remote
\* that can be at the large commit.
InitScenario ==
    /\ pc = "Idle"
    /\ force = FALSE
    /\ silent = FALSE
    /\ remote \in (1..MaxCommit) \cup {BulkCommit}
    /\ head \in {h \in 0..(remote - 1) : remote - h <= MaxCommit}
    /\ originMain = head
    /\ workTree \in {{}, {ModTmp, ModTodo}}
    /\ stash = 0
    /\ now = 1
    /\ userClaude \in Consumers(head, FALSE)
    /\ backups = NoBackups
    /\ metadata = NoMetadata
    /\ notification = NoNotification
    /\ info = NoInfo
    /\ ret = NoRet
    /\ calls = << >>
    /\ start = Snapshot
    /\ touched = {}
    /\ faults = 0

\* A repository whose USER_CLAUDE_DIR was last synced at an earlier commit,
\* or holds an agent of the operator's own: it can hold files the
\* repository no longer has.
InitStale ==
    /\ pc = "Idle"
    /\ force = FALSE
    /\ silent = FALSE
    /\ remote \in 0..MaxCommit
    /\ head = remote
    /\ originMain = head
    /\ workTree \in WorkTrees
    /\ stash = 0
    /\ now = 1
    /\ userClaude \in {Installed(c) : c \in 0..head}
                         \cup {WithOwn(Installed(head)), NoUserClaude}
    /\ backups = NoBackups
    /\ metadata = NoMetadata
    /\ notification = NoNotification
    /\ info = NoInfo
    /\ ret = NoRet
    /\ calls = << >>
    /\ start = Snapshot
    /\ touched = {}
    /\ faults = 0

\* The same, for a USER_CLAUDE_DIR that is there.
InitConsumer == InitOf({{}, {ModTmp, ModTodo}}, TRUE)

B(b) == IF b THEN "true" ELSE "false"

\* Writes into, or removals from, USER_CLAUDE_DIR, and the step `by` that
\* made them.
Touch(paths, by) == {[path |-> f, by |-> by] : f \in paths}

\* The environment fails n more times.
Fail(ok) == IF ok THEN 0 ELSE 1
Spend(n) == faults + n <= MaxFaults /\ faults' = faults + n

\* ------------------------------------------------------------- exit codes
\* A variant that reports success whatever happened.
ExitCodeZero(success) == 0

\* sys.exit(0 if success else 1), for the update and sync commands.
ExitCode(success) == IF success THEN 0 ELSE 1

\* sys.exit(0 if info.status != UpdateStatus.ERROR else 1), for check and
\* status.
CheckExit(status) == IF status # "ERROR" THEN 0 ELSE 1

\* ------------------------------------------------------------------- probe
_get_current_commit(ok) == IF ok THEN head ELSE Unknown

\* git ls-remote origin HEAD asks the remote itself.
_get_remote_commit(ok) == IF ok THEN remote ELSE Unknown

_get_local_changes(ok) ==
    IF ok THEN SelectSeq(ModOrder, LAMBDA m : m \in workTree) ELSE << >>

\* git rev-list --count HEAD..origin/main, with origin/main at om.
RevListCount(om) == IF om > head THEN om - head ELSE 0

\* A faulty variant: the diffs are computed whatever the distance.
GetRemoteChangesNoShortCircuit(om, revListOk, diffOk, deletedOk) ==
    LET behind == IF revListOk THEN RevListCount(om) ELSE 0
        changed_files == IF diffOk THEN AsList(DiffNames(head, om)) ELSE << >>
        deleted_files == IF deletedOk THEN AsList(DiffDeleted(head, om))
                         ELSE << >>
    IN  [changed |-> _filter_maestro_files(changed_files),
         deleted |-> _filter_maestro_files(deleted_files),
         behind  |-> behind,
         ran |-> <<"fetch", "rev-list", "diff", "diff">>]

\* om: origin/main after the fetch; the three flags: whether rev-list and the
\* two diffs succeeded.
_get_remote_changes(om, revListOk, diffOk, deletedOk) ==
    LET behind == IF revListOk THEN RevListCount(om) ELSE 0
        changed_files == IF diffOk THEN AsList(DiffNames(head, om)) ELSE << >>
        deleted_files == IF deletedOk THEN AsList(DiffDeleted(head, om))
                         ELSE << >>
    IN  IF behind = 0
        THEN [changed |-> << >>, deleted |-> << >>, behind |-> 0,
              ran |-> <<"fetch", "rev-list">>]
        ELSE [changed |-> _filter_maestro_files(changed_files),
              deleted |-> _filter_maestro_files(deleted_files),
              behind  |-> behind,
              ran |-> <<"fetch", "rev-list", "diff", "diff">>]

\* A faulty variant: local modifications take precedence over the distance.
UpdateStatusLocalFirst(behind, local_changes) ==
    IF local_changes # << >> THEN "HAS_LOCAL_CHANGES"
    ELSE IF behind > 0 THEN "UPDATE_AVAILABLE"
    ELSE "UP_TO_DATE"

UpdateStatusOf(behind, local_changes) ==
    IF behind > 0 THEN "UPDATE_AVAILABLE"
    ELSE IF local_changes # << >> THEN "HAS_LOCAL_CHANGES"
    ELSE "UP_TO_DATE"

\* A faulty variant: an up-to-date repository goes through the update too.
AfterProbeAlwaysGuards(status) == "Guarding"

\* Where update() goes once check_for_updates returned.
AfterProbe(status) == IF status = "UP_TO_DATE" THEN "UpToDate" ELSE "Guarding"

\* update(force, silent) is called.
update(f, s) ==
    /\ pc = "Idle"
    /\ pc' = "Probing"
    /\ force' = f
    /\ silent' = s
    /\ start' = Snapshot
    /\ UNCHANGED <<touched, head, remote, originMain, workTree, stash, now,
                   backups,
                   metadata, userClaude, notification, info, ret, calls,
                   faults>>

\* The UpdateInfo that check_for_updates() builds. The flags tell which of
\* its commands succeeded: rev-parse, ls-remote, status, fetch, rev-list and
\* the two diffs. The version strings are left out: they are only displayed.
RunProbe(revParseOk, lsRemoteOk, statusOk, fetchOk, revListOk, diffOk, deletedOk) ==
    LET om == IF fetchOk THEN remote ELSE originMain
        local_changes == _get_local_changes(statusOk)
        rc == _get_remote_changes(om, revListOk, diffOk, deletedOk)
        status == UpdateStatusOf(rc.behind, local_changes)
    IN  /\ Spend(Fail(revParseOk) + Fail(lsRemoteOk) + Fail(statusOk)
                  + Fail(fetchOk) + Fail(revListOk) + Fail(diffOk)
                  + Fail(deletedOk))
        \* a command that is not run, or whose output is empty
        \* either way, does not fail
        /\ ~revListOk => RevListCount(om) > 0
        /\ ~diffOk \/ ~deletedOk => revListOk /\ RevListCount(om) > 0
        /\ originMain' = om
        /\ info' = [current_commit |-> _get_current_commit(revParseOk),
                    remote_commit  |-> _get_remote_commit(lsRemoteOk),
                    local_changes  |-> local_changes,
                    remote_changes |-> rc.changed,
                    deleted_files  |-> rc.deleted,
                    status         |-> status,
                    behind_by      |-> rc.behind]
        /\ calls' = calls \o rc.ran

\* info = self.check_for_updates(), then the UP_TO_DATE early return.
\* update() reads neither current_commit nor remote_commit, so the failures
\* of their two lookups are explored by the check command only.
check_for_updates ==
    /\ pc = "Probing"
    /\ \E statusOk, fetchOk, revListOk, diffOk, deletedOk \in BOOLEAN :
          RunProbe(TRUE, TRUE, statusOk, fetchOk, revListOk, diffOk,
                   deletedOk)
    /\ pc' = AfterProbe(info'.status)
    /\ ret' = IF AfterProbe(info'.status) = "UpToDate"
              THEN [ret EXCEPT !.update = "true", !.exit = ExitCode(TRUE)]
              ELSE ret
    /\ UNCHANGED <<touched, force, silent, head, remote,
                   workTree, stash, now, backups, metadata, userClaude,
                   notification, start>>

\* ------------------------------------------------------------------- guard
\* git stash save: tracked modifications move to the stash list, untracked
\* files stay; with nothing tracked to save the command still exits 0.
StashSave(wt) == Untracked(wt)
StashCount(wt, n) == IF Tracked(wt) # {} THEN n + 1 ELSE n

\* git reset --hard: the index and the tracked files go back to the commit:
\* tracked modifications are dropped, and a file that was only staged is
\* removed with its index entry.
ResetHard(wt) == Untracked(wt)

\* A faulty variant: one repository-wide clean.
CleanEverywhere(wt, cleaned) == {m \in wt : ~IsUntracked(m)}

\* git clean -fd <dir> for each managed prefix in `cleaned` (the commands
\* that succeeded): untracked files under those directories are removed.
Clean(wt, cleaned) ==
    {m \in wt : ~(IsUntracked(m) /\ \E p \in cleaned : UnderDir(m.path, p))}

\* What the operator's answer to the resolution prompt can be, by
\* RICH_AVAILABLE (set when the process imports the prompt library): with
\* the library a yes/no question then a choice among the three options,
\* without it one free-text line ("" is stash). "raise": the read raised.
Answers(rich) == IF rich THEN {"raise", "no", "stash", "commit", "discard"}
                 ELSE {"raise", "stash", "commit", "discard", "other"}

GuardAnswers == {"raise", "no", "stash", "commit", "discard", "other"}

\* The failures a run of the guard meets: the prompt read, the stash or the
\* reset, a clean.
GuardFaults(answer, gitOk, cleaned) ==
    CASE answer = "raise"   -> 1
      [] answer = "stash"   -> Fail(gitOk)
      [] answer = "discard" -> Fail(gitOk) + Fail(cleaned = Range(MAESTRO_PATHS))
      [] OTHER              -> Fail(gitOk)

\* A faulty variant: silent does not skip the deletion confirmation.
AfterGuardSilentAsks(deleted_files, f, s) ==
    IF deleted_files # << >> /\ ~f THEN "Confirming" ELSE "BackingUp"

\* Where update() goes once _handle_local_changes returned True.
AfterGuard(deleted_files, f, s) ==
    IF deleted_files # << >> /\ ~f /\ ~s THEN "Confirming" ELSE "BackingUp"

\* A faulty variant: force does not skip the prompt.
PromptsDespiteForce(local_changes, f) == local_changes # << >>

\* Whether _handle_local_changes gets as far as its prompt.
Prompts(local_changes, f) == local_changes # << >> /\ ~f

\* A faulty variant: the commit resolution saves the changes itself.
ResolutionCallsCommitSaves(answer) ==
    CASE answer \in {"stash", "commit"} -> <<"stash">>
      [] answer = "discard" -> <<"reset", "clean">>
      [] OTHER              -> << >>

\* The version-control commands the chosen resolution issues.
ResolutionCalls(answer) ==
    CASE answer = "stash"   -> <<"stash">>
      [] answer = "discard" -> <<"reset", "clean">>
      [] OTHER              -> << >>

\* A faulty variant: the clean runs only after a reset that succeeded.
ResolvedCleanAfterReset(wt, answer, gitOk, cleaned) ==
    CASE answer = "stash" /\ gitOk -> StashSave(wt)
      [] answer = "discard" /\ gitOk -> Clean(ResetHard(wt), cleaned)
      [] OTHER -> wt

\* The working tree the chosen resolution leaves; gitOk: whether the stash,
\* or the reset, succeeded.
Resolved(wt, answer, gitOk, cleaned) ==
    CASE answer = "stash" /\ gitOk -> StashSave(wt)
      [] answer = "discard" ->
              Clean(IF gitOk THEN ResetHard(wt) ELSE wt, cleaned)
      [] OTHER -> wt

\* A faulty variant: the outcome of the stash command is not looked at.
GuardReturnsStashUnchecked(answer, gitOk) ==
    answer = "stash" \/ (answer = "discard" /\ gitOk)

\* What _handle_local_changes returns once the prompt was answered.
GuardReturns(answer, gitOk) == answer \in {"stash", "discard"} /\ gitOk

CancelReason(answer) ==
    CASE answer = "stash"   -> "stash_failed"
      [] answer = "discard" -> "discard_failed"
      [] OTHER              -> answer

Proceed(r) ==
    /\ pc' = AfterGuard(info.deleted_files, force, silent)
    /\ ret' = [r EXCEPT !.guard = "true"]

Cancel(r, reason) ==
    /\ pc' = "Cancelled"
    /\ ret' = [r EXCEPT !.guard = "false", !.update = "false",
                        !.exit = ExitCode(FALSE),
                        !.cancel = reason]

\* if not self._handle_local_changes(info.local_changes, force): return False
_handle_local_changes ==
    /\ pc = "Guarding"
    /\ \/ /\ ~Prompts(info.local_changes, force)
          /\ Proceed(ret)
          /\ UNCHANGED <<workTree, stash, calls, faults>>
       \/ /\ Prompts(info.local_changes, force)
          /\ \E rich, gitOk \in BOOLEAN, answer \in GuardAnswers,
                cleaned \in SUBSET Range(MAESTRO_PATHS) :
              LET r == IF answer = "stash"
                       THEN [ret EXCEPT !.stash = B(gitOk)] ELSE ret
              IN  /\ answer \in Answers(rich)
                  /\ answer # "discard" => cleaned = Range(MAESTRO_PATHS)
                  /\ answer \notin {"stash", "discard"} => gitOk
                  /\ Spend(GuardFaults(answer, gitOk, cleaned))
                  /\ calls' = calls \o <<"prompt">> \o ResolutionCalls(answer)
                  /\ workTree' = Resolved(workTree, answer, gitOk, cleaned)
                  /\ stash' = IF answer = "stash" /\ gitOk
                              THEN StashCount(workTree, stash) ELSE stash
                  /\ IF answer = "raise"
                     THEN pc' = "Crashed" /\ ret' = ret
                     ELSE IF GuardReturns(answer, gitOk)
                     THEN Proceed(r)
                     ELSE Cancel(r, CancelReason(answer))
    /\ UNCHANGED <<touched, force, silent, head, remote,
                   originMain, now, backups, metadata, userClaude,
                   notification, info, start>>

\* "Continue with deletion?", asked when deleted_files and not force and
\* not silent.
ConfirmDeletion ==
    /\ pc = "Confirming"
    /\ \E answer \in {"yes", "no", "raise"} :
         /\ Spend(Fail(answer # "raise"))
         /\ CASE answer = "yes" ->
                 /\ pc' = "BackingUp"
                 /\ ret' = [ret EXCEPT !.confirm = "true"]
           [] answer = "no" ->
                 /\ pc' = "Cancelled"
                 /\ ret' = [ret EXCEPT !.confirm = "false", !.update = "false",
                                       !.exit = ExitCode(FALSE),
                                       !.cancel = "deletion_declined"]
           [] OTHER ->
                 /\ pc' = "Crashed"
                 /\ ret' = ret
    /\ calls' = Append(calls, "confirm")
    /\ UNCHANGED <<touched, force, silent, head, remote,
                   originMain, workTree, stash, now, backups, metadata,
                   userClaude, notification, info, start>>

\* ------------------------------------------------------------------ backup
ScriptsDir == <<"scripts", "/">>

ScriptsDirExists == \E f \in Tree(head) : UnderDir(f, ScriptsDir)
SettingsExists == userClaude.exists /\ Settings \in userClaude.files

EmptyDir == [scripts |-> FALSE, commit |-> 0, mods |-> {}, settings |-> FALSE]

\* backup_path / "scripts": the scripts subtree as it is in the working tree.
WithScripts(dir) ==
    [dir EXCEPT !.scripts = TRUE, !.commit = head,
                !.mods = {m \in workTree : UnderDir(m.path, ScriptsDir)}]

PutDir(bs, ts, dir) ==
    [t \in DOMAIN bs \cup {ts} |-> IF t = ts THEN dir ELSE bs[t]]

DirAt(bs, ts) == IF ts \in DOMAIN bs THEN bs[ts] ELSE EmptyDir

MetadataRecord(ts, commit) ==
    [kind |-> "record", timestamp |-> ts, commit |-> commit,
     backup_path |-> ts]

\* The step of _create_backup that raises, or "none": the mkdir, a copy (of
\* the scripts subtree or the settings file), the write of the metadata file
\* (which the open for writing has truncated by then).
BackupFailures == {"none", "mkdir", "copy", "metadata"}

\* A faulty variant: only the newest backup directory is kept.
BackupDirsPruned(fail) ==
    IF fail = "mkdir" THEN backups ELSE [t \in {now} |-> DirAt(backups, now)]

\* The backup directory after _create_backup whose step `fail` raised.
BackupDirs(fail) ==
    LET made == DirAt(backups, now)
        copied == IF ScriptsDirExists THEN WithScripts(made) ELSE made
        full == IF SettingsExists THEN [copied EXCEPT !.settings = TRUE]
                ELSE copied
    IN  CASE fail = "mkdir" -> backups
          [] fail = "copy"  -> PutDir(backups, now, made)
          [] OTHER          -> PutDir(backups, now, full)

\* The metadata file after _create_backup whose step `fail` raised.
MetadataAfter(fail, revParseOk) ==
    CASE fail = "none" -> MetadataRecord(now, _get_current_commit(revParseOk))
      [] fail = "metadata" -> CorruptMetadata
      [] OTHER -> metadata

\* A faulty variant: a failed backup stops the update.
AfterBackupAbort(ok) == IF ok THEN "Updating" ELSE "Cancelled"

\* Where update() goes once _create_backup returned `ok`.
AfterBackup(ok) == "Updating"

\* if not self._create_backup(): warn, and proceed anyway.
_create_backup ==
    /\ pc = "BackingUp"
    /\ \E fail \in BackupFailures, revParseOk \in BOOLEAN :
        /\ Spend(Fail(fail = "none") + Fail(revParseOk))
        /\ fail # "none" => revParseOk
        /\ fail = "copy" => ScriptsDirExists \/ SettingsExists
        /\ backups' = BackupDirs(fail)
        /\ metadata' = MetadataAfter(fail, revParseOk)
        /\ ret' = [ret EXCEPT !.backup = B(fail = "none")]
        /\ pc' = AfterBackup(fail = "none")
    /\ calls' = Append(calls, "backup")
    /\ UNCHANGED <<touched, force, silent, head, remote,
                   originMain, workTree, stash, now, userClaude,
                   notification, info, start>>

\* ------------------------------------------------------------------ update
\* scripts/setup.py --quick in the tree of commit c: not there, or exit 0,
\* exit non-zero, or the process could not be run (subprocess.run raised).
Hooks(c) == IF SetupPy \in Tree(c) THEN {"ok", "nonzero", "raises"}
            ELSE {"absent"}

\* A faulty variant: a non-zero exit of the reinstall hook fails the update.
PerformReturnsHookChecked(pullOk, hook) ==
    pullOk /\ hook \in {"absent", "ok"}

\* What _perform_update returns.
PerformReturns(pullOk, hook) == pullOk /\ hook # "raises"

\* A faulty variant: the cleanup and the hook run after a failed pull too.
PerformCallsNoAbort(pullOk, hook) ==
    IF hook = "absent" THEN <<"pull", "cleanup">>
    ELSE <<"pull", "cleanup", "reinstall">>

\* The commands _perform_update issues.
PerformCalls(pullOk, hook) ==
    IF ~pullOk THEN <<"pull">>
    ELSE IF hook = "absent" THEN <<"pull", "cleanup">>
    ELSE <<"pull", "cleanup", "reinstall">>

\* A faulty variant: the result of _perform_update is ignored.
AfterPerformIgnored(ok) == "Updated"

\* Where update() goes once _perform_update returned `ok`.
AfterPerform(ok) == IF ok THEN "Updated" ELSE "Failed"

_perform_update ==
    /\ pc = "Updating"
    /\ \E pullOk \in BOOLEAN, cleaned \in SUBSET Range(MAESTRO_PATHS),
          hook \in Hooks(remote) \cup {"absent"} :
        /\ Spend(Fail(pullOk) + Fail(hook # "raises")
                 + Fail(cleaned = Range(MAESTRO_PATHS)))
        /\ ~pullOk => hook = "absent" /\ cleaned = Range(MAESTRO_PATHS)
        /\ pullOk => hook \in Hooks(remote)
        /\ IF pullOk
           THEN head' = remote /\ originMain' = remote
           ELSE UNCHANGED <<head, originMain>>
        /\ workTree' = IF "cleanup" \in Range(PerformCalls(pullOk, hook))
                       THEN Clean(workTree, cleaned) ELSE workTree
        /\ calls' = calls \o PerformCalls(pullOk, hook)
        /\ ret' = [ret EXCEPT !.perform = B(PerformReturns(pullOk, hook)),
                              !.pull = B(pullOk),
                              !.hook =
                                 IF "reinstall" \in
                                        Range(PerformCalls(pullOk, hook))
                                 THEN hook ELSE "none"]
        /\ pc' = AfterPerform(PerformReturns(pullOk, hook))
    /\ UNCHANGED <<touched, force, silent, remote, stash,
                   now,
                   backups, metadata, userClaude, notification, info, start>>

\* "Update failed! Attempting rollback..."
AttemptRollback ==
    /\ pc = "Failed"
    /\ pc' = "RollingBack"
    /\ UNCHANGED <<touched, faults, force, silent, head, remote,
                   originMain, workTree, stash, now, backups, metadata,
                   userClaude, notification, info, ret, calls, start>>

\* ---------------------------------------------------------------- rollback
\* A faulty variant: the reset is to HEAD, not to the recorded commit.
ResetToHead(meta) == head

\* The commit `git reset --hard <previous_commit>` is given.
ResetTarget(meta) == meta.commit

\* A faulty variant: the backup directory is not looked for.
RollbackReadyNoPathCheck(meta, bs) == meta.kind = "record"

\* The two checks _rollback makes before it mutates anything.
RollbackReady(meta, bs) ==
    meta.kind = "record" /\ meta.backup_path \in DOMAIN bs

\* copytree(backup/scripts, repo/scripts) over the tree of commit c: the
\* snapshot's own modifications come back, and a snapshot of another version
\* of the scripts shows as a modification.
RestoreScripts(wt, dir, c) ==
    wt \cup dir.mods
       \cup (IF ScriptsVersion(dir.commit) # ScriptsVersion(c)
             THEN {ModRun} ELSE {})

_rollback ==
    /\ pc = "RollingBack"
    /\ calls' = Append(calls, "rollback")
    /\ IF ~RollbackReady(metadata, backups)
       THEN /\ ret' = [ret EXCEPT !.rollback = "false", !.update = "false",
                                  !.exit = ExitCode(FALSE)]
            /\ pc' = "RollbackFailed"
            /\ UNCHANGED <<head, workTree, userClaude, touched, faults>>
       ELSE \E resetOk, scriptsOk, settingsOk \in BOOLEAN :
            LET dir == DirAt(backups, metadata.backup_path)
                c == ResetTarget(metadata)
                done == /\ resetOk
                        /\ dir.scripts => scriptsOk
                        /\ dir.settings => settingsOk /\ userClaude.exists
            IN  \* the reset to a commit that does not resolve fails of
                \* itself; any other failure is the environment's
                /\ resetOk => c # Unknown
                /\ Spend((IF c = Unknown THEN 0 ELSE Fail(resetOk))
                         + Fail(scriptsOk) + Fail(settingsOk))
                /\ ~scriptsOk => resetOk /\ dir.scripts
                /\ ~settingsOk => resetOk /\ scriptsOk /\ dir.settings
                /\ head' = IF resetOk THEN c ELSE head
                /\ workTree' =
                      IF ~resetOk THEN workTree
                      ELSE IF dir.scripts /\ scriptsOk
                      THEN RestoreScripts(ResetHard(workTree), dir, c)
                      ELSE ResetHard(workTree)
                /\ userClaude' =
                      IF done /\ dir.settings
                      THEN PutFile(userClaude, Settings, Pristine(Settings, 0))
                      ELSE userClaude
                /\ touched' =
                      IF done /\ dir.settings
                      THEN touched \cup Touch({Settings}, "rollback")
                      ELSE touched
                /\ ret' = [ret EXCEPT !.rollback = B(done),
                                      !.reset = B(resetOk),
                                      !.update = "false",
                                      !.exit = ExitCode(FALSE)]
                /\ pc' = IF done THEN "RolledBack" ELSE "RollbackFailed"
    /\ UNCHANGED <<force, silent, remote, originMain,
                   stash, now, backups, metadata, notification, info, start>>

\* -------------------------------------------------------------------- sync
\* The file operations of _sync_to_user_claude_dir, in order: a copy for
\* each changed path, then a removal for each deleted path.
SyncOps(inf) ==
    [i \in 1..Len(inf.remote_changes) |->
        [op |-> "copy", path |-> inf.remote_changes[i]]]
    \o [i \in 1..Len(inf.deleted_files) |->
        [op |-> "remove", path |-> inf.deleted_files[i]]]

\* Whether the operation touches the filesystem (src.exists / dst.exists).
DoesIO(o, files) ==
    IF o.op = "copy" THEN o.path \in Tree(head) ELSE o.path \in files

\* dst.unlink()
RemoveFile(uc, f) ==
    [uc EXCEPT !.files = @ \ {f},
               !.content = [g \in uc.files \ {f} |-> uc.content[g]]]

\* A faulty variant: the directory goes with whatever it holds.
PruneAlways(uc, d) ==
    LET kept == {g \in uc.files : Parent(g) # d}
    IN  [uc EXCEPT !.files = kept,
                   !.content = [g \in kept |-> uc.content[g]],
                   !.dirs = @ \ {d}]

\* dst.parent.rmdir(), its OSError passed over: the directory d goes when it
\* holds neither a file nor a directory (d = << >> is USER_CLAUDE_DIR).
Prune(uc, d) ==
    IF \/ \E g \in uc.files : Parent(g) = d
       \/ \E e \in uc.dirs : e # d /\ StartsWith(e, d)
    THEN uc
    ELSE IF d = << >> THEN [uc EXCEPT !.exists = FALSE]
    ELSE [uc EXCEPT !.dirs = @ \ {d}]

ApplyOp(o, uc) ==
    IF ~DoesIO(o, uc.files) THEN uc
    ELSE IF o.op = "copy" THEN PutFile(uc, o.path, SrcContent(o.path))
    ELSE Prune(RemoveFile(uc, o.path), Parent(o.path))

\* One more operation: the directory it leaves, and the paths written or
\* removed so far.
StepOp(prev, o) ==
    [dir |-> ApplyOp(o, prev.dir),
     touched |-> IF DoesIO(o, prev.dir.files)
                 THEN prev.touched \cup {o.path} ELSE prev.touched]

\* The first n operations on the directory uc.
RECURSIVE RunOps(_, _, _)
RunOps(ops, n, uc) ==
    IF n = 0 THEN [dir |-> uc, touched |-> {}]
    ELSE CHOOSE r \in {StepOp(prev, ops[n]) :
                           prev \in {RunOps(ops, n - 1, uc)}} : TRUE

ApplyOps(ops, n, uc) == RunOps(ops, n, uc).dir

\* The paths the first n operations wrote or removed.
TouchedBy(ops, n, uc) == RunOps(ops, n, uc).touched

\* A variant that goes on when USER_CLAUDE_DIR is missing.
SkipsSyncNever(uc) == FALSE

\* if not user_claude_dir.exists(): return
SkipsSync(uc) == ~uc.exists

\* self._sync_to_user_claude_dir(info); `n` operations complete, and when
\* n < Len(ops) operation n + 1 raised, which ends the batch.
_sync_to_user_claude_dir ==
    /\ pc = "Updated"
    /\ pc' = "Syncing"
    /\ calls' = Append(calls, "sync")
    /\ IF SkipsSync(userClaude)
       THEN UNCHANGED <<userClaude, touched, faults>>
       ELSE \E ops \in {SyncOps(info)} :
            \E n \in 0..Len(ops) :
            \E dir \in {ApplyOps(ops, n, userClaude)} :
                  /\ Spend(Fail(n = Len(ops)))
                  /\ n < Len(ops) => DoesIO(ops[n + 1], dir.files)
                  /\ userClaude' = dir
                  /\ touched' =
                        touched \cup Touch(TouchedBy(ops, n, userClaude),
                                           "sync")
    /\ UNCHANGED <<force, silent, head, remote,
                   originMain, workTree, stash, now, backups, metadata,
                   notification, info, ret, start>>

\* ------------------------------------------------------------ notification
UpdatedListLimit == 20
RemovedListLimit == 10

Take(seq, n) == SubSeq(seq, 1, IF Len(seq) < n THEN Len(seq) ELSE n)

\* A faulty variant: the whole list of changed files is written.
UpdateNotificationFull(inf) ==
    [kind |-> "update", behind_by |-> inf.behind_by,
     updated |-> inf.remote_changes,
     removed |-> Take(inf.deleted_files, RemovedListLimit),
     synced |-> 0, deleted |-> 0]

\* "Updated Files:" lists remote_changes[:20] and then "... and N more";
\* "Removed Files:" lists deleted_files[:10].
UpdateNotification(inf) ==
    [kind |-> "update", behind_by |-> inf.behind_by,
     updated |-> Take(inf.remote_changes, UpdatedListLimit),
     removed |-> Take(inf.deleted_files, RemovedListLimit),
     synced |-> 0, deleted |-> 0]

\* self._create_update_notification(info); return True
_create_update_notification ==
    /\ pc = "Syncing"
    /\ pc' = "Done"
    /\ calls' = Append(calls, "notify")
    /\ \E written \in BOOLEAN :
          /\ Spend(Fail(written))
          /\ notification' = IF written THEN UpdateNotification(info)
                             ELSE notification
    /\ ret' = [ret EXCEPT !.update = "true", !.exit = ExitCode(TRUE)]
    /\ UNCHANGED <<touched, force, silent, head, remote,
                   originMain, workTree, stash, now, backups, metadata,
                   userClaude, info, start>>

\* ------------------------------------------------------------------- flow
Terminal == {"UpToDate", "Cancelled", "Done", "RolledBack", "RollbackFailed"}

Next ==
    \/ \E f, s \in BOOLEAN : update(f, s)
    \/ check_for_updates
    \/ _handle_local_changes
    \/ ConfirmDeletion
    \/ _create_backup
    \/ _perform_update
    \/ AttemptRollback
    \/ _rollback
    \/ _sync_to_user_claude_dir
    \/ _create_update_notification

Spec == Init /\ [][Next]_vars

\* update() of a repository that is behind its remote.
SpecScenario == InitScenario /\ [][Next]_vars

\* update() over installations that may hold files of the operator's own.
SpecConsumer == InitConsumer /\ [][Next]_vars

\* ---------------------------------------------------------------- sync_all
\* The order in which the files of the working directory are listed.
DiskOrder == <<ClaudeMd, MakeInc, NewAgent, OldAgent, Guide, Draft, Todo,
               RunPy, SetupPy, TmpPy>> \o BulkOrder

\* src_dir.rglob('*') of a managed directory: every file under it that is in
\* the working directory, tracked or not.
FilesUnder(p) ==
    SelectSeq(DiskOrder,
              LAMBDA f : f \in FilesOnDisk(workTree, head) /\ StartsWith(f, p))

\* A variant that copies only what the consumer directory does not hold yet.
SyncAllFilesMissing ==
    SelectSeq(FilesUnder(MAESTRO_PATHS[1]) \o FilesUnder(MAESTRO_PATHS[2])
                  \o FilesUnder(MAESTRO_PATHS[3]) \o FilesUnder(MAESTRO_PATHS[4])
                  \o SelectSeq(MAESTRO_FILES,
                               LAMBDA f : f \in FilesOnDisk(workTree, head)),
              LAMBDA f : f \notin userClaude.files)

\* The files sync_all copies, in order: those of each managed directory,
\* then each managed file that exists.
SyncAllFiles ==
    FilesUnder(MAESTRO_PATHS[1]) \o FilesUnder(MAESTRO_PATHS[2])
        \o FilesUnder(MAESTRO_PATHS[3]) \o FilesUnder(MAESTRO_PATHS[4])
        \o SelectSeq(MAESTRO_FILES,
                     LAMBDA f : f \in FilesOnDisk(workTree, head))

SyncNotification(synced, deleted) ==
    [kind |-> "sync", behind_by |-> 0, updated |-> << >>, removed |-> << >>,
     synced |-> synced, deleted |-> deleted]

\* A faulty variant: a mirror, which leaves in the directory only what it
\* copied.
CopyAllMirror(files, n, uc) ==
    [exists |-> TRUE,
     files |-> {files[i] : i \in 1..n},
     content |-> [f \in {files[i] : i \in 1..n} |-> SrcContent(f)],
     dirs |-> DirsOf({files[i] : i \in 1..n})]

\* shutil.copy2 of the first n of the files into the directory uc.
RECURSIVE CopyAll(_, _, _)
CopyAll(files, n, uc) ==
    IF n = 0 THEN uc
    ELSE CHOOSE r \in {PutFile(prev, files[n], SrcContent(files[n])) :
                           prev \in {CopyAll(files, n - 1, uc)}} : TRUE

\* The `sync` command: sync_all(). The mkdir of USER_CLAUDE_DIR can raise
\* when the directory is not there yet; `n` copies complete, and when
\* n < Len(files) copy n + 1 raised; the notification is written last and a
\* failure to write it is ignored. The command can be run again: `synced`
\* keeps the outcome and the synced_count of every call.
sync_all ==
    /\ pc \in {"Idle", "SyncedAll"}
    /\ Len(ret.synced) < MaxSyncs
    /\ pc' = "SyncedAll"
    /\ calls' = Append(calls, "sync_all")
    /\ start' = Snapshot
    /\ \E files \in {SyncAllFiles} :
       \E mkdirOk, written \in BOOLEAN, n \in 0..Len(files) :
        LET copied == {files[i] : i \in 1..n}
            ok == mkdirOk /\ n = Len(files)
        IN  /\ ~mkdirOk => ~userClaude.exists /\ n = 0
            /\ ~ok => written
            /\ Spend(Fail(ok) + Fail(written))
            /\ userClaude' =
                  IF mkdirOk
                  THEN CopyAll(files, n, [userClaude EXCEPT !.exists = TRUE])
                  ELSE userClaude
            /\ touched' = touched \cup Touch(copied, "sync_all")
            /\ notification' = IF ok /\ written THEN SyncNotification(n, 0)
                               ELSE notification
            /\ ret' = [ret EXCEPT
                         !.sync_all = B(ok),
                         !.exit = ExitCode(ok),
                         !.synced = Append(@, [ok |-> ok, synced_count |-> n])]
    /\ UNCHANGED <<force, silent, head, remote, originMain, workTree, stash,
                   now, backups, metadata, info>>

\* The commands of _run_git_command that returned success = False.
FailedCommands(revParseOk, lsRemoteOk, statusOk, fetchOk, revListOk, diffOk, deletedOk) ==
    {c \in {"rev-parse", "ls-remote", "status", "fetch", "rev-list", "diff",
            "diff-deleted"} :
        \/ c = "rev-parse" /\ ~revParseOk
        \/ c = "ls-remote" /\ ~lsRemoteOk
        \/ c = "status" /\ ~statusOk
        \/ c = "fetch" /\ ~fetchOk
        \/ c = "rev-list" /\ ~revListOk
        \/ c = "diff" /\ ~diffOk
        \/ c = "diff-deleted" /\ ~deletedOk}

\* The `check` and `status` commands: check_for_updates(), the display of
\* its result, and the exit code.
check ==
    /\ pc = "Idle"
    /\ pc' = "Checked"
    /\ start' = Snapshot
    /\ \E revParseOk, lsRemoteOk, statusOk, fetchOk, revListOk, diffOk,
          deletedOk \in BOOLEAN :
          /\ RunProbe(revParseOk, lsRemoteOk, statusOk, fetchOk, revListOk,
                      diffOk, deletedOk)
          /\ ret' = [ret EXCEPT
                       !.exit = CheckExit(info'.status),
                       !.failed = FailedCommands(revParseOk, lsRemoteOk,
                                                 statusOk, fetchOk, revListOk,
                                                 diffOk, deletedOk)]
    /\ UNCHANGED <<touched, force, silent, head, remote, workTree, stash, now,
                   backups, metadata, userClaude, notification>>

\* The commands of the process: update, sync, check and status.
NextAll == Next \/ sync_all \/ check

SpecAll == Init /\ [][NextAll]_vars

\* The `sync` command alone, run up to MaxSyncs times in a row.
SpecSync == Init /\ [][sync_all]_vars

\* The `sync` command on a USER_CLAUDE_DIR that can hold stale files.
SpecStale == InitStale /\ [][sync_all]_vars

\* The `check` and `status` commands alone.
SpecCheck == Init /\ [][check]_vars

\* ------------------------------------------------------------- concurrency
\* Two update() invocations against one repository, interleaved step by
\* step: the module takes no lock. Both found an update and a clean working
\* tree and stand before _create_backup; what a successful update does after
\* _perform_update touches neither the repository nor the backup state and
\* is left out. Here pc and ret hold one entry for each invocation.
Invocations == {1, 2}

\* The seconds the clock can show (backup directories are named to the
\* second).
MaxTime == 2

\* wrote: the record the invocation's _create_backup wrote; read: the record
\* its _rollback read; reset_to: the commit its reset went to.
ConcRet == [backup |-> "none", wrote |-> NoMetadata, perform |-> "none",
            read |-> NoMetadata, reset |-> "none", reset_to |-> Unknown,
            rollback |-> "none"]

InitConc ==
    /\ pc = [p \in Invocations |-> "BackingUp"]
    /\ force = FALSE
    /\ silent = FALSE
    /\ remote \in 1..MaxCommit
    /\ head \in 0..(remote - 1)
    /\ originMain = remote
    /\ workTree = {}
    /\ stash = 0
    /\ now = 1
    /\ userClaude \in {Installed(head), NoUserClaude}
    /\ \E prior \in PriorBackups(head, userClaude) :
          /\ backups = prior.backups
          /\ metadata = prior.metadata
    /\ notification = NoNotification
    /\ info = NoInfo
    /\ ret = [p \in Invocations |-> ConcRet]
    /\ calls = << >>
    /\ start = Snapshot
    /\ touched = {}
    /\ faults = 0

\* A second passes.
Tick ==
    /\ now < MaxTime
    /\ now' = now + 1
    /\ UNCHANGED <<pc, force, silent, head, remote, originMain, workTree,
                   stash, backups, metadata, userClaude, notification, info,
                   ret, calls, start, touched, faults>>

\* _create_backup() of invocation p.
ConcCreateBackup(p) ==
    /\ pc[p] = "BackingUp"
    /\ \E fail \in BackupFailures, revParseOk \in BOOLEAN :
        /\ Spend(Fail(fail = "none") + Fail(revParseOk))
        /\ fail # "none" => revParseOk
        /\ fail = "copy" => ScriptsDirExists \/ SettingsExists
        /\ backups' = BackupDirs(fail)
        /\ metadata' = MetadataAfter(fail, revParseOk)
        /\ ret' = [ret EXCEPT
                     ![p].backup = B(fail = "none"),
                     ![p].wrote = IF fail = "none"
                                  THEN MetadataAfter(fail, revParseOk) ELSE @]
        /\ pc' = [pc EXCEPT ![p] = AfterBackup(fail = "none")]
    /\ calls' = Append(calls, [by |-> p, op |-> "backup"])
    /\ UNCHANGED <<touched, force, silent, head, remote, originMain,
                   workTree, stash, now, userClaude, notification, info,
                   start>>

\* _perform_update() of invocation p.
ConcPerformUpdate(p) ==
    /\ pc[p] = "Updating"
    /\ \E pullOk \in BOOLEAN, cleaned \in SUBSET Range(MAESTRO_PATHS),
          hook \in Hooks(remote) \cup {"absent"} :
        /\ Spend(Fail(pullOk) + Fail(hook # "raises")
                 + Fail(cleaned = Range(MAESTRO_PATHS)))
        /\ ~pullOk => hook = "absent" /\ cleaned = Range(MAESTRO_PATHS)
        /\ pullOk => hook \in Hooks(remote)
        /\ head' = IF pullOk THEN remote ELSE head
        /\ workTree' = IF "cleanup" \in Range(PerformCalls(pullOk, hook))
                       THEN Clean(workTree, cleaned) ELSE workTree
        /\ ret' = [ret EXCEPT
                     ![p].perform = B(PerformReturns(pullOk, hook))]
        /\ pc' = [pc EXCEPT
                    ![p] = AfterPerform(PerformReturns(pullOk, hook))]
    /\ calls' = Append(calls, [by |-> p, op |-> "update"])
    /\ UNCHANGED <<touched, force, silent, remote, originMain, stash, now,
                   backups, metadata, userClaude, notification, info, start>>

\* _rollback() of invocation p, whose _perform_update returned False.
ConcRollback(p) ==
    /\ pc[p] = "Failed"
    /\ calls' = Append(calls, [by |-> p, op |-> "rollback"])
    /\ IF ~RollbackReady(metadata, backups)
       THEN /\ ret' = [ret EXCEPT ![p].rollback = "false"]
            /\ pc' = [pc EXCEPT ![p] = "RollbackFailed"]
            /\ UNCHANGED <<head, workTree, userClaude, touched, faults>>
       ELSE \E resetOk, scriptsOk, settingsOk \in BOOLEAN :
            LET dir == DirAt(backups, metadata.backup_path)
                c == ResetTarget(metadata)
                done == /\ resetOk
                        /\ dir.scripts => scriptsOk
                        /\ dir.settings => settingsOk /\ userClaude.exists
            IN  /\ resetOk => c # Unknown
                /\ Spend((IF c = Unknown THEN 0 ELSE Fail(resetOk))
                         + Fail(scriptsOk) + Fail(settingsOk))
                /\ ~scriptsOk => resetOk /\ dir.scripts
                /\ ~settingsOk => resetOk /\ scriptsOk /\ dir.settings
                /\ head' = IF resetOk THEN c ELSE head
                /\ workTree' =
                      IF ~resetOk THEN workTree
                      ELSE IF dir.scripts /\ scriptsOk
                      THEN RestoreScripts(ResetHard(workTree), dir, c)
                      ELSE ResetHard(workTree)
                /\ userClaude' =
                      IF done /\ dir.settings
                      THEN PutFile(userClaude, Settings, Pristine(Settings, 0))
                      ELSE userClaude
                /\ touched' =
                      IF done /\ dir.settings
                      THEN touched \cup Touch({Settings}, "rollback")
                      ELSE touched
                /\ ret' = [ret EXCEPT
                             ![p].rollback = B(done),
                             ![p].reset = B(resetOk),
                             ![p].read = metadata,
                             ![p].reset_to = IF resetOk THEN c ELSE @]
                /\ pc' = [pc EXCEPT ![p] = IF done THEN "RolledBack"
                                           ELSE "RollbackFailed"]
    /\ UNCHANGED <<force, silent, remote, originMain, stash, now, backups,
                   metadata, notification, info, start>>

NextConc ==
    \/ Tick
    \/ \E p \in Invocations :
          \/ ConcCreateBackup(p)
          \/ ConcPerformUpdate(p)
          \/ ConcRollback(p)

SpecConc == InitConc /\ [][NextConc]_vars

\* update() has returned.
Returned == pc \in Terminal

\* An exception left update().
Crashed == pc = "Crashed"

Count(seq, x) == Cardinality({i \in 1..Len(seq) : seq[i] = x})

\* Every step of update() runs to an outcome whatever the failures so far.
NeverStuck == Returned \/ Crashed \/ ENABLED Next

\* ------------------------------------------------------------------ claims
Rollbacks == Count(calls, "rollback")

\* The commands that change the repository, the backup root or the
\* consumer directory.
Mutating == {"stash", "reset", "clean", "backup", "pull", "cleanup",
             "reinstall", "sync", "rollback"}

C2_RollbackAlwaysRestores ==
    ret.backup = "true" /\ ret.rollback # "none"
        => ret.rollback = "true" /\ head = metadata.commit

\* C2, amended: _rollback leaves the local head at the recorded commit C
\* whenever its hard reset succeeds, and returns True only then; the reset
\* never succeeds for the sentinel "unknown".
C2_RollbackRestoresWhenResetSucceeds ==
    /\ ret.reset = "true"
          => metadata.kind = "record" /\ head = metadata.commit
                /\ metadata.commit # Unknown
    /\ ret.rollback = "true" => ret.reset = "true"

\* This invocation's backup recorded C, the pull moved the head off C, and
\* the rollback's reset put it back.
C2_Witness ==
    /\ ret.backup = "true" /\ ret.pull = "true" /\ ret.reset = "true"
    /\ metadata.timestamp = now /\ head = metadata.commit /\ head # remote

\* C3: _rollback runs if and only if _perform_update returned False: a
\* failed update step is followed by exactly one rollback and a False
\* return, and no rollback runs after a cancelled guard, an up-to-date probe
\* or a successful update step.
C3_RollbackIffPerformFailed ==
    /\ Rollbacks <= 1
    /\ Rollbacks = 1 => ret.perform = "false"
    /\ Returned => (ret.perform = "false" <=> Rollbacks = 1)
    /\ Returned /\ ret.perform = "false" => ret.update = "false"
    /\ pc \in {"UpToDate", "Cancelled", "Updated", "Syncing", "Done"}
          => Rollbacks = 0

C3_Witness ==
    pc = "RollbackFailed" /\ ret.perform = "false" /\ Rollbacks = 1

\* C4: when the update step failed and this invocation's _create_backup had
\* failed, _rollback reports failure without resetting the repository, and
\* update() returns False, whatever earlier invocations left in the metadata
\* file and the backup root.
C4_NoBackupNoReset ==
    ret.backup = "false" /\ ret.rollback # "none"
        => /\ ret.rollback = "false"
           /\ ret.reset = "none"
           /\ ret.update = "false"

\* C5: the status is UPDATE_AVAILABLE whenever behind_by > 0, whatever the
\* local modifications; HAS_LOCAL_CHANGES exactly when behind_by = 0 and
\* there are local modifications; UP_TO_DATE otherwise.
C5_StatusPrecedence ==
    info.status # "none" =>
        /\ info.behind_by > 0 => info.status = "UPDATE_AVAILABLE"
        /\ info.status = "HAS_LOCAL_CHANGES"
              <=> info.behind_by = 0 /\ info.local_changes # << >>
        /\ info.status = "UP_TO_DATE"
              <=> info.behind_by = 0 /\ info.local_changes = << >>

\* Two commits behind with local modifications.
C5_Witness ==
    /\ info.behind_by = 2 /\ info.local_changes # << >>
    /\ info.status = "UPDATE_AVAILABLE"

\* C6: once the guard and the deletion confirmation let the update proceed,
\* the pull is attempted whether _create_backup returned True or False, and
\* update() returns False only when it was cancelled or the update step
\* failed.
C6_BackupFailureIsAWarning ==
    /\ Returned /\ ret.guard = "true" /\ ret.confirm # "false"
          => ret.backup # "none" /\ ret.pull # "none"
    /\ Returned /\ ret.update # "true"
          => pc = "Cancelled" \/ ret.perform = "false"
    /\ Returned /\ ret.backup = "false" /\ ret.perform = "true"
          => ret.update = "true"

C6_Witness ==
    pc = "Done" /\ ret.backup = "false" /\ ret.update = "true"

\* C7: when update() returns False because the operator declined to resolve
\* the local changes or declined the deletion, nothing was done: no stash,
\* reset, clean, backup, pull or consumer-directory write, and the working
\* tree, the stash list, the backup root and the metadata are as at the
\* start.
C7_CancelLeavesNoSideEffects ==
    pc = "Cancelled" /\ ret.cancel \in {"no", "commit", "deletion_declined"}
        => /\ Range(calls) \cap Mutating = {}
           /\ Snapshot = start

\* The state of the flow in the terms of the specification: the deletion
\* confirmation is part of guarding.
Phase == IF pc = "Confirming" THEN "Guarding" ELSE pc

Flow == {<<"Idle", "Probing">>, <<"Probing", "UpToDate">>,
         <<"Probing", "Guarding">>, <<"Guarding", "Cancelled">>,
         <<"Guarding", "BackingUp">>, <<"BackingUp", "Updating">>,
         <<"Updating", "Updated">>, <<"Updating", "Failed">>,
         <<"Updated", "Syncing">>, <<"Syncing", "Done">>,
         <<"Failed", "RollingBack">>, <<"RollingBack", "RolledBack">>,
         <<"RollingBack", "RollbackFailed">>}

Index(seq, x) == CHOOSE i \in 1..Len(seq) : seq[i] = x

\* The guard precedes the backup, the backup the pull, and the sync follows
\* a successful update step only.
Ordered ==
    /\ "backup" \in Range(calls) => ret.guard = "true"
    /\ "pull" \in Range(calls)
          => "backup" \in Range(calls)
                /\ Index(calls, "backup") < Index(calls, "pull")
    /\ "sync" \in Range(calls) => ret.perform = "true"

\* C8: the flow is Idle -> Probing -> {UpToDate | Guarding}; Guarding ->
\* {Cancelled | BackingUp}; BackingUp -> Updating; Updating -> {Updated ->
\* Syncing -> Done | Failed -> RollingBack -> {RolledBack |
\* RollbackFailed}}: the guard precedes the backup, the backup the pull, the
\* sync follows a successful update step only, and every run ends in one of
\* the terminal states.
C8_StateMachine ==
    /\ [][Phase' # Phase => <<Phase, Phase'>> \in Flow]_vars
    /\ []Ordered

\* C9: when the pull fails _perform_update returns False and runs neither
\* the per-prefix cleanup nor the reinstall hook; it returns True whenever
\* the pull succeeded and nothing raised.
C9_PullFailureAborts ==
    /\ ret.pull = "false"
          => /\ ret.perform = "false"
             /\ "cleanup" \notin Range(calls)
             /\ "reinstall" \notin Range(calls)
    /\ ret.pull = "true" /\ ret.hook # "raises" => ret.perform = "true"

\* The pull failed and an untracked file under a managed prefix is still
\* there.
C9_Witness ==
    pc = "Failed" /\ ret.pull = "false" /\ ModTmp \in workTree

\* C10: when the pull succeeds and the reinstall hook exits non-zero,
\* _perform_update returns True, no rollback runs, the sync runs and
\* update() returns True.
C10_HookFailureIsAWarning ==
    ret.hook = "nonzero"
        => /\ ret.perform = "true"
           /\ Rollbacks = 0
           /\ pc \in {"Updated", "Syncing", "Done"}
           /\ pc = "Done" => ret.update = "true" /\ "sync" \in Range(calls)

C10_Witness ==
    pc = "Done" /\ ret.hook = "nonzero" /\ ret.update = "true"

\* A path outside the managed prefixes.
Unmanaged(f) == ~\E p \in Range(MAESTRO_PATHS) : StartsWith(f, p)

\* The guard ran the discard resolution and nothing ran since.
JustDiscarded ==
    /\ "reset" \in Range(calls)
    /\ pc \in {"Confirming", "BackingUp", "Cancelled"}
    /\ ret.confirm = "none"

\* C11: the discard resolution removes no file outside the managed prefixes:
\* every such file of the working directory, untracked or newly added ones
\* included, is still there after the discard.
C11_DiscardKeepsUnmanagedFiles ==
    JustDiscarded =>
        \A f \in FilesOnDisk(start.workTree, start.head) :
            Unmanaged(f) => f \in FilesOnDisk(workTree, head)

\* C12: the "commit" resolution makes the guard and update() return False
\* with nothing done: no stash, reset, clean, backup or pull, and the
\* repository, the stash list and the backup root as at the start.
C12_CommitCancelsWithoutMutation ==
    ret.cancel = "commit" =>
        /\ pc = "Cancelled"
        /\ ret.guard = "false" /\ ret.update = "false"
        /\ Range(calls) \cap Mutating = {}
        /\ Snapshot = start

\* Up to date with two untracked files, force not set, "commit" chosen.
C12_Witness ==
    /\ ret.cancel = "commit" /\ ~force
    /\ info.status = "HAS_LOCAL_CHANGES" /\ info.behind_by = 0
    /\ workTree = {ModTmp, ModTodo}

C14_ForceDiscardsLocalChanges ==
    pc = "Done" /\ force => workTree \cap start.workTree = {}

\* C16: whenever the distance _get_remote_changes returns is 0, the case of
\* a rev-list that failed included, the changed and the deleted lists are
\* empty and no diff command was run.
C16_NoDiffWhenNotBehind ==
    info.status # "none" /\ info.behind_by = 0 =>
        /\ info.remote_changes = << >>
        /\ info.deleted_files = << >>
        /\ "diff" \notin Range(calls)

\* origin/main is ahead of HEAD, the rev-list failed, the distance is 0.
C16_Witness ==
    /\ info.status # "none" /\ info.behind_by = 0
    /\ pc = "Guarding" /\ originMain > head

\* The allow-list as the specification words it: a path under agents/,
\* commands/, scripts/ or skills/, or one that is, or starts with, one of
\* the managed filenames.
ManagedPath(f) ==
    \/ /\ Len(f) >= 2
       /\ f[1] \in {"agents", "commands", "scripts", "skills"}
       /\ f[2] = "/"
    \/ f[1] \in {"CHANGELOG.md", "CLAUDE.md", "Makefile"}

\* The list a diff between HEAD and origin/main gives, filtered.
ManagedOf(S) == SelectSeq(AsList(S), ManagedPath)

\* C17: _filter_maestro_files keeps, in input order, exactly the managed
\* paths of its input: every path of the changed and the deleted list is
\* managed, and each list is the managed part of its diff (or empty, when
\* the diff was not run or failed).
C17_FilterKeepsExactlyManaged ==
    /\ \A f \in Range(info.remote_changes) \cup Range(info.deleted_files) :
          ManagedPath(f)
    /\ info.status # "none" /\ ret.pull = "none" =>
          /\ info.remote_changes
                \in {<< >>, ManagedOf(DiffNames(head, originMain))}
          /\ info.deleted_files
                \in {<< >>, ManagedOf(DiffDeleted(head, originMain))}

\* A diff with a path under a managed prefix, one that starts with a
\* managed filename and one outside the allow-list, which is dropped.
C17_Witness ==
    /\ info.remote_changes = <<MakeInc, OldAgent, RunPy>>
    /\ Guide \in DiffNames(head, originMain)
    /\ info.deleted_files = <<OldAgent>>

C19_CleanupIsPerPrefix ==
    [][pc = "Updating" =>
         /\ \A m \in workTree \ workTree' :
               /\ IsUntracked(m)
               /\ ~Unmanaged(m.path)
               /\ m.path \notin Tree(head')
         /\ \A f \in FilesOnDisk(workTree, head') :
               Unmanaged(f) \/ f \in Tree(head')
                   => f \in FilesOnDisk(workTree', head')]_vars

\* The cleanup removed the untracked file under scripts/ and left the one
\* under notes/.
C19_Witness ==
    /\ pc = "Updated" /\ "clean" \notin Range(calls)
    /\ ModTmp \in start.workTree /\ ModTmp \notin workTree
    /\ ModTodo \in workTree

\* C20: when check_for_updates reports UP_TO_DATE update() returns True at
\* once: no prompt, backup, pull, cleanup, sync or notification, and the
\* backup root, the metadata file and everything else as at the start.
C20_UpToDateReturnsAtOnce ==
    /\ info.status = "UP_TO_DATE" => pc = "UpToDate"
    /\ pc = "UpToDate" =>
          /\ ret.update = "true"
          /\ Range(calls) \subseteq {"fetch", "rev-list"}
          /\ Snapshot = start
          /\ touched = {}

\* Up to date, with the record and the snapshot of an earlier update there.
C20_Witness ==
    /\ pc = "UpToDate" /\ metadata.kind = "record"
    /\ backups # NoBackups /\ backups = start.backups

\* C21: sync_all() is idempotent. When a call that succeeded is followed by
\* another call, with the working directory unchanged in between, the second
\* call leaves USER_CLAUDE_DIR as the first left it, and when it succeeds too
\* it reports the same synced_count.
C21_SyncAllIsIdempotent ==
    LET k == Len(ret.synced)
    IN  k >= 2 /\ ret.synced[k - 1].ok =>
            /\ userClaude = start.userClaude
            /\ ret.synced[k].ok =>
                   ret.synced[k].synced_count = ret.synced[k - 1].synced_count

C21_Witness ==
    /\ Len(ret.synced) = 2
    /\ ret.synced[1].ok /\ ret.synced[2].ok
    /\ ret.synced[2].synced_count >= 5
    /\ TmpPy \in userClaude.files
    /\ userClaude = start.userClaude

\* The paths of the batch of _sync_to_user_claude_dir that had something to
\* copy or remove and were not reached.
SyncPending ==
    LET ops == SyncOps(info)
    IN  {ops[i].path : i \in {j \in 1..Len(ops) :
                                  DoesIO(ops[j], start.userClaude.files)}}
            \ {t.path : t \in {x \in touched : x.by = "sync"}}

\* The files of the last sync_all that were not copied.
SyncAllPending ==
    Range(SyncAllFiles) \ {t.path : t \in {x \in touched : x.by = "sync_all"}}

\* C22: one failing copy or removal does not abort the batch. After the
\* propagation step of update() and after sync_all(), at most the one path
\* whose operation failed is left unprocessed.
C22_OneFailureDoesNotAbortTheBatch ==
    /\ pc \in {"Syncing", "Done"} /\ start.userClaude.exists =>
            Cardinality(SyncPending) <= 1
    /\ pc = "SyncedAll" /\ userClaude.exists =>
            Cardinality(SyncAllPending) <= 1

C24_FailurePropagation ==
    Returned =>
        /\ ret.update \in {"true", "false"}
        /\ ret.update = "false" <=>
               \/ ret.guard = "false"
               \/ ret.confirm = "false"
               \/ ret.perform = "false"
        /\ ret.exit = IF ret.update = "true" THEN 0 ELSE 1

\* update() returned True although the backup and the sync failed.
C24_Witness ==
    /\ pc = "Done"
    /\ ret.update = "true" /\ ret.exit = 0
    /\ ret.backup = "false"
    /\ start.userClaude.exists /\ SyncPending # {}

\* C25: the check and status commands exit with 1 when a version-control
\* query of the probe failed, and with 0 otherwise.
C25_CheckExitsOneOnProbeError ==
    pc = "Checked" => (ret.exit = 1 <=> ret.failed # {})

\* C26: the probe fails soft. check_for_updates() returns a result whatever
\* fails; a failed rev-parse gives current_commit "unknown", a failed status
\* an empty local_changes, and a failed fetch or rev-list gives behind_by = 0
\* so that no update is detected.
C26_ProbeFailsSoft ==
    pc = "Checked" =>
        /\ info.status \in {"UP_TO_DATE", "UPDATE_AVAILABLE",
                             "HAS_LOCAL_CHANGES"}
        /\ "rev-parse" \in ret.failed => info.current_commit = Unknown
        /\ "status" \in ret.failed => info.local_changes = << >>
        /\ "fetch" \in ret.failed \/ "rev-list" \in ret.failed =>
               /\ info.behind_by = 0
               /\ info.status # "UPDATE_AVAILABLE"

\* C27: no exception escapes the engine. Whatever fails, a command, a
\* filesystem call or the read of a prompt, update() and sync_all() return a
\* boolean: no invocation ends with an uncaught exception.
C27_NoExceptionEscapes ==
    /\ pc # "Crashed"
    /\ pc \in Terminal => ret.update \in {"true", "false"}
    /\ pc = "SyncedAll" => ret.sync_all \in {"true", "false"}

\* C28: _rollback checks before it mutates. Without a readable metadata
\* record, or without the backup directory it names, it returns False and
\* runs neither the reset nor a restore; when the reset fails it returns
\* False and restores nothing; and nothing is tried after a failed rollback.
C28_RollbackChecksFirst ==
    [][/\ pc # "RollbackFailed"
       /\ (/\ pc = "RollingBack"
           /\ \/ metadata.kind # "record"
              \/ metadata.backup_path \notin DOMAIN backups)
          => /\ ret'.rollback = "false"
             /\ ret'.reset = "none"
             /\ pc' = "RollbackFailed"
             /\ UNCHANGED <<head, workTree, stash, userClaude>>
       /\ (pc = "RollingBack" /\ ret'.reset = "false")
          => /\ ret'.rollback = "false"
             /\ pc' = "RollbackFailed"
             /\ UNCHANGED <<head, workTree, stash, userClaude>>]_vars

\* The update moved HEAD and failed; the record names a backup directory
\* that is gone, and the rollback left HEAD where the update put it.
C28_Witness ==
    /\ pc = "RollbackFailed"
    /\ metadata.kind = "record"
    /\ metadata.backup_path \notin DOMAIN backups
    /\ ret.reset = "none"
    /\ head # start.head

\* C29: only _create_backup writes the backup root or the metadata file.
\* Every other step, the pull, the cleanup, the reinstall and _rollback
\* among them, leaves both as they are; no step removes a backup directory
\* or changes one made earlier, so the set of backups only grows.
C29_BackupStateOwnership ==
    [][/\ pc # "BackingUp" => UNCHANGED <<backups, metadata>>
       /\ \A t \in DOMAIN backups :
              /\ t \in DOMAIN backups'
              /\ t # now => backups'[t] = backups[t]]_vars

\* A second backup directory next to the one of an earlier update, after an
\* update that was rolled back.
C29_Witness ==
    /\ pc = "RolledBack"
    /\ ret.backup = "true" /\ ret.pull = "true"
    /\ start.backups # NoBackups
    /\ DOMAIN start.backups \subseteq DOMAIN backups
    /\ Cardinality(DOMAIN backups) = Cardinality(DOMAIN start.backups) + 1
    /\ metadata = MetadataRecord(now, start.head)

\* C30: concurrent invocations are unsafe, for want of a lock. The reset of
\* a _rollback goes to the commit of whatever record the one metadata file
\* holds when it is read: the invocation's own, the other invocation's, or
\* the one an earlier run left.
C30_RollbackFollowsSharedRecord ==
    \A p \in Invocations :
        ret[p].reset = "true" =>
            /\ ret[p].reset_to = ret[p].read.commit
            /\ ret[p].read \in {start.metadata}
                                  \cup {ret[q].wrote : q \in Invocations}

\* One invocation's rollback has just reset the repository to the commit
\* that the other invocation's _create_backup recorded, not to the one its
\* own _create_backup recorded.
C30_Witness ==
    \E p, q \in Invocations :
        /\ p # q
        /\ ret[p].backup = "true" /\ ret[q].backup = "true"
        /\ ret[p].reset = "true"
        /\ ret[p].read = ret[q].wrote
        /\ ret[p].wrote.commit # Unknown
        /\ ret[p].reset_to # ret[p].wrote.commit
        /\ head = ret[q].wrote.commit
        /\ head # start.head

\* The files USER_CLAUDE_DIR is to hold after the propagation step: those it
\* held that were not deleted upstream, and the changed ones the repository
\* holds.
SyncKept ==
    (start.userClaude.files \ Range(info.deleted_files))
        \cup (Range(info.remote_changes) \cap Tree(head))

\* C31: the postcondition of _sync_to_user_claude_dir when USER_CLAUDE_DIR
\* is there and nothing raised. Every changed path the repository holds is
\* in USER_CLAUDE_DIR with the repository's content; every deleted path is
\* gone from it; the directory of a removed file is left in place with all
\* it holds when it still holds a file, and removed when the removal
\* emptied it.
C31_SyncPostcondition ==
    pc \in {"Syncing", "Done"} /\ start.userClaude.exists /\ SyncPending = {}
    =>  /\ \A f \in Range(info.remote_changes) \cap Tree(head) :
               /\ f \in userClaude.files
               /\ userClaude.content[f] = SrcContent(f)
        /\ userClaude.files = SyncKept
        /\ \A f \in Range(info.deleted_files) :
               /\ f \notin userClaude.files
               /\ (\E g \in SyncKept : Parent(g) = Parent(f))
                     => Parent(f) \in userClaude.dirs
               /\ f \in start.userClaude.files
                  /\ ~(\E g \in SyncKept : Parent(g) = Parent(f))
                     => Parent(f) \notin userClaude.dirs

\* agents/old.md was removed from an installation that holds the operator's
\* own agent next to it, and scripts/run.py was brought to the new content.
C31_Witness ==
    /\ pc = "Done"
    /\ SyncPending = {}
    /\ OldAgent \in Range(info.deleted_files)
    /\ OldAgent \in start.userClaude.files
    /\ MyAgent \in userClaude.files
    /\ Parent(OldAgent) \in userClaude.dirs
    /\ RunPy \in Range(info.remote_changes)
    /\ userClaude.content[RunPy] # start.userClaude.content[RunPy]

\* Scenario A: update() returned, the repository was behind the remote with
\* a clean working tree, and nothing in the environment failed.
ScenarioA ==
    Returned /\ faults = 0 /\ start.head < remote /\ start.workTree = {}

\* The filtered changed files between the starting commit and the remote.
ScenarioChanges ==
    _filter_maestro_files(AsList(DiffNames(start.head, remote)))

\* The probe, the backup, the pull, the propagation and the notification,
\* each once and in that order, with no guard prompt.
ScenarioSteps ==
    /\ SelectSeq(calls, LAMBDA c : c \in {"fetch", "backup", "pull", "sync",
                                           "notify"})
          = <<"fetch", "backup", "pull", "sync", "notify">>
    /\ "prompt" \notin Range(calls)

\* The statement as the specification words it: in scenario A update()
\* always returns success and the notification lists every changed file.
C32_AsStated ==
    ScenarioA
    =>  /\ info.status = "UPDATE_AVAILABLE"
        /\ ScenarioSteps
        /\ ret.update = "true"
        /\ notification.kind = "update"
        /\ notification.updated = ScenarioChanges

\* C32: in scenario A the status is UPDATE_AVAILABLE; when the change set
\* deletes nothing, or force or silent is set, or the deletion was
\* confirmed, update() runs probe, backup, pull, sync and notification in
\* that order with no guard prompt and returns success, and the
\* notification lists the first UpdatedListLimit filtered changed files.
C32_ScenarioA ==
    ScenarioA
    =>  /\ info.status = "UPDATE_AVAILABLE"
        /\ info.remote_changes = ScenarioChanges
        /\ info.deleted_files = << >> \/ force \/ silent
                \/ ret.confirm = "true"
            =>  /\ ScenarioSteps
                /\ ret.update = "true"
                /\ ret.exit = 0
                /\ notification.kind = "update"
                /\ notification.behind_by = remote - start.head
                /\ notification.updated
                      = Take(ScenarioChanges, UpdatedListLimit)

\* An update over the large commit: more files changed than the
\* notification lists.
C32_Witness ==
    /\ ScenarioA
    /\ pc = "Done"
    /\ "confirm" \notin Range(calls)
    /\ Len(ScenarioChanges) > UpdatedListLimit
    /\ Len(notification.updated) = UpdatedListLimit
    /\ notification.updated # info.remote_changes

\* The resolution prompt was the last thing that ran.
AtPrompt == calls # << >> /\ calls[Len(calls)] = "prompt"

\* C33: when no resolution is supplied, with no interactive channel (the
\* read of the prompt meets the end of the input) as with an empty response,
\* the guard applies the stash resolution; and a response that is none of
\* stash, commit and discard makes the guard return False with no
\* version-control command run.
C33_GuardInput ==
    /\ AtPrompt => pc # "Crashed" /\ ret.guard \in {"true", "false"}
    /\ pc = "Crashed" /\ "prompt" \in Range(calls)
            /\ "confirm" \notin Range(calls)
          => ret.stash # "none"
    /\ ret.cancel \in {"other", "no"}
          => /\ ret.guard = "false"
             /\ Range(calls) \cap {"stash", "reset", "clean"} = {}
             /\ workTree = start.workTree /\ stash = start.stash
             /\ head = start.head

\* C34: the metadata record points at a completed backup of the most recent
\* successful _create_backup. The metadata file is written last, after the
\* copies, so a successful call leaves a record that names the directory it
\* filled; a failed call leaves the metadata file as it found it; and
\* _rollback restores from the record the file holds.
C34_MetadataPointsAtCompletedBackup ==
    /\ ret.backup = "true"
          => /\ metadata.kind = "record"
             /\ metadata.backup_path = now
             /\ metadata.backup_path \in DOMAIN backups
    /\ ret.backup = "false" => metadata = start.metadata
    /\ ret.rollback = "true"
          => /\ metadata.kind = "record"
             /\ metadata.backup_path \in DOMAIN backups
             /\ ret.reset = "true"

\* The commands of the local-change resolution that ran, all of them before
\* the deletion confirmation.
ResolutionBeforeConfirm ==
    \A i \in 1..Len(calls) :
        calls[i] \in {"prompt", "stash", "reset", "clean"}
            => i < Index(calls, "confirm")

\* C35: the deletion confirmation is asked only after _handle_local_changes
\* returned True, its resolution applied, and only when deleted_files is not
\* empty and neither force nor silent is set, and it is asked before the
\* backup; with force or silent set an update that deletes files goes on to
\* the backup and the pull with no confirmation.
C35_DeletionConfirmation ==
    /\ pc = "Confirming" \/ "confirm" \in Range(calls)
          => /\ ret.guard = "true"
             /\ info.deleted_files # << >>
             /\ ~force /\ ~silent
    /\ "confirm" \in Range(calls)
          => /\ ResolutionBeforeConfirm
             /\ "backup" \in Range(calls)
                    => Index(calls, "confirm") < Index(calls, "backup")
    /\ ret.guard = "true" /\ (force \/ silent)
          => /\ pc # "Confirming"
             /\ ret.confirm = "none"
             /\ pc # "BackingUp" => "backup" \in Range(calls)
             /\ pc \notin {"BackingUp", "Updating"} => "pull" \in Range(calls)

\* The changes were stashed at the prompt, the deletion was then confirmed,
\* and the update ran to its end.
C35_Witness ==
    /\ pc = "Done"
    /\ ret.stash = "true"
    /\ ret.confirm = "true"
    /\ Index(calls, "stash") < Index(calls, "confirm")
    /\ Index(calls, "confirm") < Index(calls, "pull")

\* The files of the repository directory under a managed prefix, and the
\* managed filenames it holds.
UnderManagedPrefix ==
    {f \in FilesOnDisk(workTree, head) :
        \E p \in Range(MAESTRO_PATHS) : UnderDir(f, p)}
ManagedNamesPresent == Range(MAESTRO_FILES) \cap FilesOnDisk(workTree, head)

\* C36: sync_all only adds or overwrites. Every file USER_CLAUDE_DIR held
\* before the call is still there after it, a file the repository no longer
\* has included, and one the call did not copy keeps its content; the
\* removed count of its notification is 0; and the synced_count of a call
\* that succeeded is the number of files under the managed prefixes plus
\* the number of managed filenames the repository holds.
C36_SyncAllOnlyAdds ==
    pc = "SyncedAll"
    =>  /\ start.userClaude.files \subseteq userClaude.files
        /\ \A f \in start.userClaude.files :
               \/ userClaude.content[f] = start.userClaude.content[f]
               \/ /\ f \in FilesOnDisk(workTree, head)
                  /\ userClaude.content[f] = SrcContent(f)
        /\ notification.kind = "sync" => notification.deleted = 0
        /\ ret.synced[Len(ret.synced)].ok
              => /\ ret.synced[Len(ret.synced)].synced_count
                      = Cardinality(UnderManagedPrefix)
                          + Cardinality(ManagedNamesPresent)
                 /\ notification # start.notification
                      => notification.synced
                            = ret.synced[Len(ret.synced)].synced_count

\* agents/old.md, which the repository deleted since USER_CLAUDE_DIR was
\* installed, is still there after a sync_all that succeeded and brought
\* scripts/run.py to the repository's content.
C36_Witness ==
    /\ pc = "SyncedAll"
    /\ ret.sync_all = "true"
    /\ OldAgent \in userClaude.files
    /\ OldAgent \notin FilesOnDisk(workTree, head)
    /\ userClaude.content[RunPy] # start.userClaude.content[RunPy]
    /\ notification.kind = "sync"
    /\ notification.synced > 0

\* The untracked files under a managed prefix in the working tree wt.
UntrackedManaged(wt) ==
    {m \in wt : IsUntracked(m)
                   /\ \E p \in Range(MAESTRO_PATHS) : UnderDir(m.path, p)}

\* The discard resolution has just run: the guard returned and the update
\* has not pulled yet.
Discarded ==
    /\ "reset" \in Range(calls)
    /\ pc \in {"Cancelled", "Confirming", "BackingUp", "Updating"}

\* C37: in the discard resolution the result of the guard depends on the
\* hard reset only. The clean of the managed prefixes runs after the reset
\* whether it succeeded or not, and removes nothing but untracked files
\* under the managed prefixes; the guard returns True when the reset
\* succeeded (the tracked modifications are gone), whatever the cleans did,
\* and False when it failed (they are all still there), and then, the
\* cleans having succeeded, the untracked files under the managed prefixes
\* are gone all the same.
C37_DiscardResultIsTheReset ==
    Discarded
    =>  /\ "clean" \in Range(calls)
        /\ Index(calls, "reset") < Index(calls, "clean")
        /\ ret.guard \in {"true", "false"}
        /\ ret.guard = "true" => Tracked(workTree) = {}
        /\ ret.guard = "false"
              => /\ pc = "Cancelled" /\ ret.update = "false"
                 /\ Tracked(workTree) = Tracked(start.workTree)
                 /\ faults = 1 => UntrackedManaged(workTree) = {}
        /\ start.workTree \ workTree
              \subseteq Tracked(start.workTree)
                            \cup UntrackedManaged(start.workTree)

\* The reset failed and the guard returned False: the modification of
\* scripts/run.py is still there, the untracked scripts/tmp.py is gone.
C37_Witness ==
    /\ pc = "Cancelled"
    /\ "reset" \in Range(calls)
    /\ ret.guard = "false"
    /\ ModRun \in workTree
    /\ ModTmp \in start.workTree
    /\ ModTmp \notin workTree
    /\ ModTodo \in workTree

====
